---------------------------- MODULE Spec2Model ----------------------------
(***************************************************************************)
(* What-Reqs-Scanner: requirements_scanner.py and ai_analyzer.py.          *)
(*                                                                         *)
(* A text is a sequence of one-character strings, so that the parsing of   *)
(* requirements_scanner.py can be followed character by character.  A      *)
(* line of a manifest is the text of the line without its line terminator  *)
(* (parse_requirement strips it with the rest of the whitespace).          *)
(***************************************************************************)
EXTENDS Integers, Sequences, FiniteSets, TLC

VARIABLES
    line,               \* parse_requirement: the argument
    parsed,             \* parse_requirement: the value returned
    args,               \* main: the parsed command line
    api_key_set,        \* os.environ holds <PROVIDER>_API_KEY
    manifest,           \* directory below the base -> lines of its requirements.txt
    fs,                 \* file name in the output directory -> content
    pc,                 \* main: the next step
    exit_code,          \* main: the value returned, NoExit while running
    requirements_files, \* main: the list scan_requirements_files returned
    packages,           \* main: the dict extract_packages returned
    package_versions,   \* main: the dict extract_packages_with_versions returned
    package_counts,     \* generate_frequency_report: its local dict
    faults_left,        \* read errors the environment may still raise
    reads,              \* history: pass -> for each file, where its read failed
    log,                \* history: the operations of the run, in order
    written,            \* history: report -> the text its generator wrote
    prompt,             \* AIAnalyzer.analyze: the two texts put in the prompt
    ai_outcome          \* how the summarization step ended

vars == <<line, parsed, args, api_key_set, manifest, fs, pc, exit_code,
          requirements_files, packages, package_versions, package_counts,
          faults_left, reads, log, written, prompt, ai_outcome>>

mainVars == <<args, api_key_set, manifest, fs, pc, exit_code,
              requirements_files, packages, package_versions, package_counts,
              faults_left, reads, log, written, prompt, ai_outcome>>

-----------------------------------------------------------------------------
(* Characters and texts *)

\* Python's None; no text equals it.
None == <<"None">>

\* A variable that holds no value yet.
Unset == <<"Unset">>

\* The printable ASCII characters in code-point order, without the double
\* quote, the backslash and the grave accent, which no text of the model
\* uses: Ord orders the characters as Python's string comparison does.
CodePoints ==
    << " ", "!", "#", "$", "%", "&", "'", "(", ")", "*", "+", ",", "-", ".", "/",
       "0", "1", "2", "3", "4", "5", "6", "7", "8", "9",
       ":", ";", "<", "=", ">", "?", "@",
       "A", "B", "C", "D", "E", "F", "G", "H", "I", "J", "K", "L", "M",
       "N", "O", "P", "Q", "R", "S", "T", "U", "V", "W", "X", "Y", "Z",
       "[", "]", "^", "_",
       "a", "b", "c", "d", "e", "f", "g", "h", "i", "j", "k", "l", "m",
       "n", "o", "p", "q", "r", "s", "t", "u", "v", "w", "x", "y", "z",
       "{", "|", "}", "~" >>

Position == [c \in {CodePoints[i] : i \in 1..Len(CodePoints)} |->
                CHOOSE i \in 1..Len(CodePoints) : CodePoints[i] = c]

Ord(c) == Position[c]

UpperCase == {CodePoints[i] : i \in Ord("A")..Ord("Z")}
LowerCase == {CodePoints[i] : i \in Ord("a")..Ord("z")}
Digits == {CodePoints[i] : i \in Ord("0")..Ord("9")}
Alphanumeric == UpperCase \cup LowerCase \cup Digits

\* [a-zA-Z0-9]
IsAlnum(c) == c \in Alphanumeric

\* [a-zA-Z0-9._-]
IsNameChar(c) == IsAlnum(c) \/ c \in {".", "_", "-"}

\* [=<>!]
IsOperatorChar(c) == c \in {"=", "<", ">", "!"}

\* \s, and what str.strip() removes
IsSpace(c) == c = " "

\* str.lower() on one character
LowerChar(c) ==
    IF c \in UpperCase THEN CodePoints[Ord(c) + (Ord("a") - Ord("A"))] ELSE c

\* s[i:] of Python, for the 1-based i-th character on
Drop(s, i) == SubSeq(s, i, Len(s))

\* str.startswith(p)
StartsWith(s, p) == Len(s) >= Len(p) /\ SubSeq(s, 1, Len(p)) = p

\* line.split('#')[0]: the text before the first '#'
BeforeHash(s) ==
    LET hashes == {i \in 1..Len(s) : s[i] = "#"}
    IN  IF hashes = {} THEN s
        ELSE SubSeq(s, 1, (CHOOSE i \in hashes : \A j \in hashes : i <= j) - 1)

\* str.strip()
Strip(s) ==
    LET solid == {i \in 1..Len(s) : ~IsSpace(s[i])}
    IN  IF solid = {} THEN <<>>
        ELSE SubSeq(s, CHOOSE i \in solid : \A j \in solid : i <= j,
                       CHOOSE i \in solid : \A j \in solid : i >= j)

\* SkippedPrefixes without 'git+'.
SkippedPrefixesWithoutGit ==
    { <<"h", "t", "t", "p", ":", "/", "/">>,
      <<"h", "t", "t", "p", "s", ":", "/", "/">>,
      <<"-", "e", " ">> }

\* The prefixes of the lines parse_requirement skips.
SkippedPrefixes ==
    { <<"h", "t", "t", "p", ":", "/", "/">>,
      <<"h", "t", "t", "p", "s", ":", "/", "/">>,
      <<"g", "i", "t", "+">>,
      <<"-", "e", " ">> }

\* match.end() of re.match(r'^([a-zA-Z0-9]([a-zA-Z0-9._-]*[a-zA-Z0-9])?)', s),
\* or 0 when there is no match: the greedy run of name characters after the
\* first character, given back up to its last alphanumeric character.
NameMatchEnd(s) ==
    IF s = <<>> \/ ~IsAlnum(s[1]) THEN 0
    ELSE LET run == {r \in 1..Len(s) : \A k \in 2..r : IsNameChar(s[k])}
             ends == {e \in run : IsAlnum(s[e])}
         IN  CHOOSE e \in ends : \A d \in ends : d <= e

\* NormalizeName without the replace('_', '-').
NormalizeNameKeepsUnderscore(name) ==
    [i \in 1..Len(name) |-> LowerChar(name[i])]

\* package_name.lower().replace('_', '-')
NormalizeName(name) ==
    [i \in 1..Len(name) |->
        IF LowerChar(name[i]) = "_" THEN "-" ELSE LowerChar(name[i])]

\* VersionSpec with a run that also ends at a comma.
VersionSpecUpToComma(rest) ==
    LET ops == {i \in 1..Len(rest) : IsOperatorChar(rest[i])}
    IN  IF ops = {} THEN <<>>
        ELSE LET i == CHOOSE a \in ops : \A b \in ops : a <= b
                 stops == {j \in (i + 1)..Len(rest) : IsSpace(rest[j]) \/ rest[j] = ","}
                 j == IF stops = {} THEN Len(rest) + 1
                      ELSE CHOOSE a \in stops : \A b \in stops : a <= b
             IN  SubSeq(rest, i, j - 1)

\* group(1) of re.search(r'([=<>!]+.*?)(?:\s|$)', rest), stripped, or '' when
\* the search finds nothing: the search starts at the leftmost operator
\* character and the lazy .*? stops at the first whitespace or at the end.
VersionSpec(rest) ==
    LET ops == {i \in 1..Len(rest) : IsOperatorChar(rest[i])}
    IN  IF ops = {} THEN <<>>
        ELSE LET i == CHOOSE a \in ops : \A b \in ops : a <= b
                 stops == {j \in (i + 1)..Len(rest) : IsSpace(rest[j])}
                 j == IF stops = {} THEN Len(rest) + 1
                      ELSE CHOOSE a \in stops : \A b \in stops : a <= b
             IN  Strip(SubSeq(rest, i, j - 1))

\* PackageNormalizer.parse_requirement: <<normalized_name, version_spec>>,
\* or <<None, None>>.
parse_requirement(raw) ==
    LET s == Strip(BeforeHash(raw))
        end == NameMatchEnd(s)
    IN  IF s = <<>> THEN <<None, None>>
        ELSE IF \E p \in SkippedPrefixes : StartsWith(s, p) THEN <<None, None>>
        ELSE IF end = 0 THEN <<None, None>>
        ELSE <<NormalizeName(SubSeq(s, 1, end)), VersionSpec(Drop(s, end + 1))>>

-----------------------------------------------------------------------------
(* Texts: comparison, joining *)

Min(S) == CHOOSE a \in S : \A b \in S : a <= b

Range(f) == {f[x] : x \in DOMAIN f}

\* a < b of Python on two str: by code point, a proper prefix first.
TextLess(a, b) ==
    LET n == IF Len(a) < Len(b) THEN Len(a) ELSE Len(b)
        diff == {i \in 1..n : a[i] # b[i]}
    IN  IF diff = {} THEN Len(a) < Len(b)
        ELSE Ord(a[Min(diff)]) < Ord(b[Min(diff)])

\* sep.join(texts)
RECURSIVE Join(_, _)
Join(texts, sep) ==
    IF texts = <<>> THEN <<>>
    ELSE IF Len(texts) = 1 THEN texts[1]
    ELSE texts[1] \o sep \o Join(Tail(texts), sep)

-----------------------------------------------------------------------------
(* The directory tree and scan_requirements_files *)

\* The directories below the base directory, each the sequence of names on
\* the way down from the base; <<>> is the base itself.  manifest says
\* which of them hold a file named requirements.txt.
Dirs ==
    { <<>>, <<"proj1">>, <<"proj2">>, <<"proj1", "env">>,
      <<"venv">>, <<"venv", "lib">>,
      <<"proj2", "sub">>, <<"proj2", "sub", ".git">> }

\* The names os.walk is told not to descend into.
Denylist == {".git", "__pycache__", "node_modules", ".venv", "venv", "env"}

\* KeptSubdirs with the filter applied in the base directory only.
KeptSubdirsBelowBaseOnly(d) ==
    {e \in Dirs : /\ Len(e) = Len(d) + 1
                  /\ SubSeq(e, 1, Len(d)) = d
                  /\ (d = <<>> => e[Len(e)] \notin Denylist)}

\* dirs[:] after the filter, for the directory d.
KeptSubdirs(d) ==
    {e \in Dirs : /\ Len(e) = Len(d) + 1
                  /\ SubSeq(e, 1, Len(d)) = d
                  /\ e[Len(e)] \notin Denylist}

\* The files appended while os.walk is at directory d.
FoundIn(m, d) == IF d \in DOMAIN m THEN <<d>> ELSE <<>>

\* os.walk, top down: a directory's own files, then its kept subdirectories
\* one after the other, each with its whole subtree, in an order the file
\* system chooses.  WalkFrom is the set of lists the walk can return.
RECURSIVE WalkFrom(_, _), WalkAll(_, _)
WalkFrom(m, d) == {FoundIn(m, d) \o below : below \in WalkAll(m, KeptSubdirs(d))}
WalkAll(m, ds) ==
    IF ds = {} THEN {<<>>}
    ELSE UNION {{first \o others : first \in WalkFrom(m, d),
                                   others \in WalkAll(m, ds \ {d})} : d \in ds}

\* RequirementsScanner.scan_requirements_files: the lists it can return.
scan_requirements_files(m) == WalkFrom(m, <<>>)

-----------------------------------------------------------------------------
(* Reading the manifests *)

\* No read error for a file.
NoFault == -1

\* A read that fails at fault = k raises at the open (k = 0) or while line
\* k + 1 is read: the loop body has run for the first k lines.
LinesRead(m, file, fault) ==
    IF fault = NoFault THEN m[file] ELSE SubSeq(m[file], 1, fault)

\* What each file of the list delivers to the loop of a pass.
Delivered(m, files, faults) ==
    [i \in 1..Len(files) |-> LinesRead(m, files[i], faults[i])]

Failed(faults) == {i \in 1..Len(faults) : faults[i] # NoFault}

\* The read errors the environment can raise during one pass.
FaultChoices(m, files, budget) ==
    LET longest == IF files = <<>> THEN 0
                   ELSE CHOOSE n \in {Len(m[d]) : d \in Range(files)} :
                            \A d \in Range(files) : Len(m[d]) <= n
    IN  {f \in [1..Len(files) -> {NoFault} \cup 0..longest] :
            /\ \A i \in 1..Len(files) :
                  f[i] = NoFault \/ f[i] = 0 \/ f[i] < Len(m[files[i]])
            /\ Cardinality(Failed(f)) <= budget}

-----------------------------------------------------------------------------
(* The aggregation passes, each over the lines its reads delivered *)

\* dict[key] = value
Put(d, key, value) ==
    IF key \in DOMAIN d THEN [d EXCEPT ![key] = value] ELSE d @@ (key :> value)

\* dict.get(key, 0) + 1
Increment(d, key) == Put(d, key, IF key \in DOMAIN d THEN d[key] + 1 ELSE 1)

\* extract_packages, lines 134-140: one line of a file.
AddDeclaration(pk, raw) ==
    LET decl == parse_requirement(raw)
        package_name == decl[1]
        version_spec == decl[2]
        known == IF package_name \in DOMAIN pk THEN pk
                 ELSE Put(pk, package_name, <<>>)
    IN  IF package_name = None THEN pk
        ELSE IF version_spec # <<>> /\ version_spec \notin Range(known[package_name])
        THEN Put(known, package_name, Append(known[package_name], version_spec))
        ELSE known

RECURSIVE AddDeclarations(_, _)
AddDeclarations(pk, lines) ==
    IF lines = <<>> THEN pk
    ELSE AddDeclarations(AddDeclaration(pk, Head(lines)), Tail(lines))

\* RequirementsScanner.extract_packages over what the files delivered: a
\* read error ends the loop over that file's lines and keeps what was added.
RECURSIVE extract_packages(_, _)
extract_packages(pk, delivered) ==
    IF delivered = <<>> THEN pk
    ELSE extract_packages(AddDeclarations(pk, Head(delivered)), Tail(delivered))

\* f"{package_name}{version_spec}", or the bare name
FullSpec(decl) == decl[1] \o decl[2]

\* The key a counting loop files a declaration under: the full spec in
\* extract_packages_with_versions, the name in generate_frequency_report.
KeyOf(keyed_by, decl) == IF keyed_by = "full_spec" THEN FullSpec(decl) ELSE decl[1]

\* CountFile without the test of seen_in_file: every line counts.
RECURSIVE CountFileEveryLine(_, _, _, _)
CountFileEveryLine(counts, seen_in_file, lines, keyed_by) ==
    IF lines = <<>> THEN counts
    ELSE LET decl == parse_requirement(Head(lines))
         IN  IF decl[1] # None
             THEN CountFileEveryLine(Increment(counts, KeyOf(keyed_by, decl)),
                                     seen_in_file, Tail(lines), keyed_by)
             ELSE CountFileEveryLine(counts, seen_in_file, Tail(lines), keyed_by)

\* Lines 159-171 and 200-204: the lines of one file, with its seen_in_file.
RECURSIVE CountFile(_, _, _, _)
CountFile(counts, seen_in_file, lines, keyed_by) ==
    IF lines = <<>> THEN counts
    ELSE LET decl == parse_requirement(Head(lines))
             key == KeyOf(keyed_by, decl)
         IN  IF decl[1] # None /\ key \notin seen_in_file
             THEN CountFile(Increment(counts, key), seen_in_file \cup {key},
                            Tail(lines), keyed_by)
             ELSE CountFile(counts, seen_in_file, Tail(lines), keyed_by)

RECURSIVE CountFiles(_, _, _)
CountFiles(counts, delivered, keyed_by) ==
    IF delivered = <<>> THEN counts
    ELSE CountFiles(CountFile(counts, {}, Head(delivered), keyed_by),
                    Tail(delivered), keyed_by)

\* RequirementsScanner.extract_packages_with_versions
extract_packages_with_versions(delivered) ==
    CountFiles(<<>>, delivered, "full_spec")

\* generate_frequency_report, lines 194-206: package_counts
count_packages(delivered) == CountFiles(<<>>, delivered, "package_name")

-----------------------------------------------------------------------------
(* The reports.  A text file is the sequence of its lines; a line is its
   format followed by the values the format is filled with. *)

\* The output directory holds no file of that name.
NoFile == << <<"(no such file)">> >>

\* key=lambda x: (-x[1], x[0]) on the items of a dict of counts
ByFrequency(counts, a, b) ==
    counts[a] > counts[b] \/ (counts[a] = counts[b] /\ TextLess(a, b))

\* sorted(d.keys()): the i-th key is the one with i - 1 keys before it.
SortedKeys(d) ==
    [i \in 1..Cardinality(DOMAIN d) |->
        CHOOSE x \in DOMAIN d :
            Cardinality({y \in DOMAIN d : TextLess(y, x)}) = i - 1]

\* sorted(d.items(), key=lambda x: (-x[1], x[0])): the keys in that order
SortedByFrequency(counts) ==
    [i \in 1..Cardinality(DOMAIN counts) |->
        CHOOSE x \in DOMAIN counts :
            Cardinality({y \in DOMAIN counts : ByFrequency(counts, y, x)}) = i - 1]

\* generate_unique_packages_report, lines 179-186
unique_packages_report(pk) ==
    LET sorted_packages == SortedKeys(pk)
    IN  << <<"# Unique Packages (Alphabetically Sorted)">>,
           <<"# Total unique packages: {}", Len(sorted_packages)>>,
           <<"">> >>
        \o [i \in 1..Len(sorted_packages) |-> <<"{package}", sorted_packages[i]>>]

\* ', '.join(packages[package]) if packages[package] else 'any'
VersionsFound(specs) ==
    IF specs = <<>> THEN <<"a", "n", "y">> ELSE Join(specs, <<",", " ">>)

\* generate_frequency_report, lines 212-216
FrequencyHeader(n_files, counts) ==
    << <<"# Packages by Frequency">>,
       <<"# Total requirements.txt files scanned: {}", n_files>>,
       <<"# Total unique packages: {}", Cardinality(DOMAIN counts)>>,
       <<"">>,
       <<"Package Count Versions Found">>,
       <<"----">> >>

\* The entries of sorted_by_freq that packages[package] raises KeyError for.
KeyErrors(pk, counts) ==
    LET sorted_by_freq == SortedByFrequency(counts)
    IN  {i \in 1..Len(sorted_by_freq) : sorted_by_freq[i] \notin DOMAIN pk}

\* generate_frequency_report, lines 218-220: the rows written, up to the
\* first entry whose lookup in packages raises.
FrequencyRows(pk, counts) ==
    LET sorted_by_freq == SortedByFrequency(counts)
        raising == KeyErrors(pk, counts)
        last == IF raising = {} THEN Len(sorted_by_freq) ELSE Min(raising) - 1
    IN  [i \in 1..last |->
            <<"{package:<40} {count:<10} {versions}",
              sorted_by_freq[i], counts[sorted_by_freq[i]],
              VersionsFound(pk[sorted_by_freq[i]])>>]

\* generate_frequency_report, lines 208-220: what the file holds when the
\* with block is left, by its end or by the KeyError.
frequency_report(pk, n_files, counts) ==
    FrequencyHeader(n_files, counts) \o FrequencyRows(pk, counts)

\* generate_unique_packages_with_versions_report, lines 226-233
unique_packages_with_versions_report(pv) ==
    LET sorted_packages == SortedKeys(pv)
    IN  << <<"# Unique Packages with Versions (Alphabetically Sorted)">>,
           <<"# Total unique package+version combinations: {}", Len(sorted_packages)>>,
           <<"">> >>
        \o [i \in 1..Len(sorted_packages) |->
                <<"{package_spec}", sorted_packages[i]>>]

\* generate_frequency_with_versions_report, lines 241-251
frequency_with_versions_report(pv, n_files) ==
    LET sorted_by_freq == SortedByFrequency(pv)
    IN  << <<"# Packages with Versions by Frequency">>,
           <<"# Total requirements.txt files scanned: {}", n_files>>,
           <<"# Total unique package+version combinations: {}", Len(sorted_by_freq)>>,
           <<"">>,
           <<"Package Specification Count">>,
           <<"----">> >>
        \o [i \in 1..Len(sorted_by_freq) |->
                <<"{package_spec:<60} {count:<10}",
                  sorted_by_freq[i], pv[sorted_by_freq[i]]>>]

\* The four reports, and the file main writes each to (lines 367-375).
Reports == {"unique", "frequency", "unique_with_versions", "frequency_with_versions"}

OutputName(a, report) ==
    CASE report = "unique" -> a.unique_output
      [] report = "frequency" -> a.frequency_output
      [] report = "unique_with_versions" -> "unique_packages_with_versions.txt"
      [] report = "frequency_with_versions" -> "packages_by_frequency_with_versions.txt"

\* The names AIAnalyzer.read_analysis_files reads (ai_analyzer.py, lines 52-57).
AnalysisName(report) ==
    CASE report = "unique" -> "unique_packages.txt"
      [] report = "frequency" -> "packages_by_frequency.txt"
      [] report = "unique_with_versions" -> "unique_packages_with_versions.txt"
      [] report = "frequency_with_versions" -> "packages_by_frequency_with_versions.txt"

-----------------------------------------------------------------------------
(* main, requirements_scanner.py lines 256-440, one action per step *)

\* main has not returned.
NoExit == -1

\* What the path given as repo_base names; "" is the argument left out with
\* no REPO_BASE in .env (args.repo_base is None) or given empty.
PathKind(path) ==
    CASE path = "/repos" -> "directory"
      [] path = "/repos/README.md" -> "file"
      [] OTHER -> "missing"

Did(op) == \E i \in 1..Len(log) : log[i] = op

\* Validate without the is_dir check of lines 330-332.
ValidateExistsOnly ==
    /\ pc = "start"
    /\ IF args.repo_base = "" \/ PathKind(args.repo_base) = "missing"
       THEN /\ pc' = "done"
            /\ exit_code' = 1
            /\ UNCHANGED log
       ELSE /\ pc' = "scan"
            /\ log' = Append(log, "mkdir")
            /\ UNCHANGED exit_code
    /\ UNCHANGED <<line, parsed, args, api_key_set, manifest, fs,
                   requirements_files, packages, package_versions,
                   package_counts, faults_left, reads, written, prompt,
                   ai_outcome>>

\* Lines 318-336: the checks of repo_base, then output_dir.mkdir.
Validate ==
    /\ pc = "start"
    /\ IF args.repo_base = "" \/ PathKind(args.repo_base) # "directory"
       THEN /\ pc' = "done"
            /\ exit_code' = 1
            /\ UNCHANGED log
       ELSE /\ pc' = "scan"
            /\ log' = Append(log, "mkdir")
            /\ UNCHANGED exit_code
    /\ UNCHANGED <<line, parsed, args, api_key_set, manifest, fs,
                   requirements_files, packages, package_versions,
                   package_counts, faults_left, reads, written, prompt,
                   ai_outcome>>

\* ScanRequirementsFiles without the return of lines 347-349.
ScanRequirementsFilesNoReturn ==
    /\ pc = "scan"
    /\ \E found \in scan_requirements_files(manifest) :
          requirements_files' = found
    /\ pc' = "extract_packages"
    /\ log' = Append(log, "walk")
    /\ UNCHANGED <<line, parsed, args, api_key_set, manifest, fs, exit_code,
                   packages, package_versions, package_counts, faults_left,
                   reads, written, prompt, ai_outcome>>

\* Lines 341-351: the walk, and the return when it finds nothing.
ScanRequirementsFiles ==
    /\ pc = "scan"
    /\ \E found \in scan_requirements_files(manifest) :
          /\ requirements_files' = found
          /\ IF found = <<>>
             THEN pc' = "done" /\ exit_code' = 0
             ELSE pc' = "extract_packages" /\ UNCHANGED exit_code
    /\ log' = Append(log, "walk")
    /\ UNCHANGED <<line, parsed, args, api_key_set, manifest, fs, packages,
                   package_versions, package_counts, faults_left, reads,
                   written, prompt, ai_outcome>>

\* Line 355: packages = scanner.extract_packages(requirements_files)
ExtractPackages ==
    /\ pc = "extract_packages"
    /\ \E faults \in FaultChoices(manifest, requirements_files, faults_left) :
          /\ packages' =
                extract_packages(<<>>, Delivered(manifest, requirements_files, faults))
          /\ reads' = [reads EXCEPT !.extract_packages = faults]
          /\ faults_left' = faults_left - Cardinality(Failed(faults))
    /\ pc' = "extract_packages_with_versions"
    /\ log' = Append(log, "extract_packages")
    /\ UNCHANGED <<line, parsed, args, api_key_set, manifest, fs, exit_code,
                   requirements_files, package_versions, package_counts,
                   written, prompt, ai_outcome>>

\* Line 360: package_versions = scanner.extract_packages_with_versions(...)
ExtractPackagesWithVersions ==
    /\ pc = "extract_packages_with_versions"
    /\ \E faults \in FaultChoices(manifest, requirements_files, faults_left) :
          /\ package_versions' =
                extract_packages_with_versions(
                    Delivered(manifest, requirements_files, faults))
          /\ reads' = [reads EXCEPT !.extract_packages_with_versions = faults]
          /\ faults_left' = faults_left - Cardinality(Failed(faults))
    /\ pc' = "generate_unique_packages_report"
    /\ log' = Append(log, "extract_packages_with_versions")
    /\ UNCHANGED <<line, parsed, args, api_key_set, manifest, fs, exit_code,
                   requirements_files, packages, package_counts, written,
                   prompt, ai_outcome>>

\* open(output_file, 'w') ... f.write(...): the file holds the text when the
\* with block is left.
WriteReport(report, text) ==
    /\ fs' = [fs EXCEPT ![OutputName(args, report)] = text]
    /\ written' = [written EXCEPT ![report] = text]

\* Line 370: scanner.generate_unique_packages_report(packages, unique_output)
GenerateUniquePackagesReport ==
    /\ pc = "generate_unique_packages_report"
    /\ WriteReport("unique", unique_packages_report(packages))
    /\ pc' = "generate_frequency_report"
    /\ log' = Append(log, "generate_unique_packages_report")
    /\ UNCHANGED <<line, parsed, args, api_key_set, manifest, exit_code,
                   requirements_files, packages, package_versions,
                   package_counts, faults_left, reads, prompt, ai_outcome>>

\* Line 371: scanner.generate_frequency_report(packages, requirements_files,
\* frequency_output).  It reads the manifests again, and a counted name that
\* packages does not hold raises KeyError at line 219: the exception leaves
\* the with block, which closes the file on the rows written so far, and
\* then leaves main.
GenerateFrequencyReport ==
    /\ pc = "generate_frequency_report"
    /\ \E faults \in FaultChoices(manifest, requirements_files, faults_left) :
          LET counts == count_packages(Delivered(manifest, requirements_files, faults))
          IN  /\ package_counts' = counts
              /\ reads' = [reads EXCEPT !.generate_frequency_report = faults]
              /\ faults_left' = faults_left - Cardinality(Failed(faults))
              /\ WriteReport("frequency",
                    frequency_report(packages, Len(requirements_files), counts))
              /\ IF KeyErrors(packages, counts) = {}
                 THEN /\ pc' = "generate_unique_packages_with_versions_report"
                      /\ UNCHANGED exit_code
                 ELSE /\ pc' = "crashed"
                      /\ exit_code' = 1
    /\ log' = Append(log, "generate_frequency_report")
    /\ UNCHANGED <<line, parsed, args, api_key_set, manifest,
                   requirements_files, packages, package_versions, prompt,
                   ai_outcome>>

\* Line 377
GenerateUniquePackagesWithVersionsReport ==
    /\ pc = "generate_unique_packages_with_versions_report"
    /\ WriteReport("unique_with_versions",
                   unique_packages_with_versions_report(package_versions))
    /\ pc' = "generate_frequency_with_versions_report"
    /\ log' = Append(log, "generate_unique_packages_with_versions_report")
    /\ UNCHANGED <<line, parsed, args, api_key_set, manifest, exit_code,
                   requirements_files, packages, package_versions,
                   package_counts, faults_left, reads, prompt, ai_outcome>>

\* Line 378
GenerateFrequencyWithVersionsReport ==
    /\ pc = "generate_frequency_with_versions_report"
    /\ WriteReport("frequency_with_versions",
                   frequency_with_versions_report(package_versions,
                                                  Len(requirements_files)))
    /\ pc' = "decide_ai"
    /\ log' = Append(log, "generate_frequency_with_versions_report")
    /\ UNCHANGED <<line, parsed, args, api_key_set, manifest, exit_code,
                   requirements_files, packages, package_versions,
                   package_counts, faults_left, reads, prompt, ai_outcome>>

\* What input() at line 410 can give: an answer, or EOFError on a closed stdin.
Answers == {"", "y", "yes", "n", "EOF"}

\* Lines 390-415: run_ai_analysis.  The answer is read only when neither
\* flag is given and the key is in the environment.
DecideAI ==
    /\ pc = "decide_ai"
    /\ \E answer \in Answers :
          LET asked == ~args.skip_ai /\ ~args.ai_analysis /\ api_key_set
              run_ai_analysis ==
                  /\ ~args.skip_ai
                  /\ args.ai_analysis \/ (api_key_set /\ answer \in {"", "y", "yes"})
          IN  IF asked /\ answer = "EOF"
              THEN pc' = "crashed" /\ exit_code' = 1
              ELSE IF run_ai_analysis
              THEN pc' = "analyze" /\ UNCHANGED exit_code
              ELSE pc' = "done" /\ exit_code' = 0
    /\ UNCHANGED <<line, parsed, args, api_key_set, manifest, fs,
                   requirements_files, packages, package_versions,
                   package_counts, faults_left, reads, log, written, prompt,
                   ai_outcome>>

-----------------------------------------------------------------------------
(* The summarization step: main lines 417-440 and ai_analyzer.py *)

\* What the step meets outside the program: whether ai_analyzer can be
\* imported, whether the files it reads can be read, how the provider call
\* ends, and whether ai_recommendations.txt can be written.
AIEnvironments ==
    [ importable : BOOLEAN,
      readable : BOOLEAN,
      call : {"package_missing", "remote_error", "answered"},
      saved : BOOLEAN ]

\* AIAnalyzer.read_analysis_files: the text of each fixed name, '' for a
\* file that is missing or cannot be read.
read_analysis_files(dir, readable) ==
    [report \in Reports |->
        IF dir[AnalysisName(report)] = NoFile \/ ~readable THEN <<>>
        ELSE dir[AnalysisName(report)]]

\* AIAnalyzer.generate_prompt: the two texts the template is filled with.
generate_prompt(analysis_data) ==
    [frequency |-> analysis_data["frequency"], unique |-> analysis_data["unique"]]

\* How lines 419-424 end: the exception raised, or "none".
\*   line 419: from ai_analyzer import AIAnalyzer
\*   AIAnalyzer.__init__, lines 30-40: no key
\*   AIAnalyzer.analyze, lines 186-189: no frequency text
\*   analyze_with_*: the provider's package is missing, or the call fails
AnalysisRaises(env, key_set, dir) ==
    IF ~env.importable THEN "ImportError"
    ELSE IF ~key_set THEN "ValueError"
    ELSE IF read_analysis_files(dir, env.readable)["frequency"] = <<>> THEN "ValueError"
    ELSE IF env.call = "package_missing" THEN "ImportError"
    ELSE IF env.call = "remote_error" THEN "Exception"
    ELSE "none"

\* Handled without the except Exception of line 436.
HandledImportErrorOnly(exception) == exception = "ImportError"

\* The except clauses of lines 432 and 436.
Handled(exception) ==
    exception = "ImportError" \/ exception \in {"ValueError", "Exception"}

\* The file analyze writes (main line 422), with its header.
recommendations_file(provider) ==
    << <<"# AI-Generated Environment Recommendations">>,
       <<"Generated using: {}", provider>>,
       <<"====">>,
       <<"{recommendations}">> >>

RunAIAnalysis ==
    /\ pc = "analyze"
    /\ \E env \in AIEnvironments :
          LET raised == AnalysisRaises(env, api_key_set, fs)
              reached_prompt ==
                  /\ env.importable
                  /\ api_key_set
                  /\ read_analysis_files(fs, env.readable)["frequency"] # <<>>
          IN  /\ ai_outcome' = raised
              /\ prompt' = IF reached_prompt
                           THEN generate_prompt(read_analysis_files(fs, env.readable))
                           ELSE prompt
              /\ fs' = IF raised = "none" /\ env.saved
                       THEN [fs EXCEPT !["ai_recommendations.txt"] =
                                recommendations_file(args.ai_provider)]
                       ELSE fs
              /\ IF raised = "none" \/ Handled(raised)
                 THEN pc' = "done" /\ exit_code' = 0
                 ELSE pc' = "crashed" /\ exit_code' = 1
    /\ log' = Append(log, "analyze")
    /\ UNCHANGED <<line, parsed, args, api_key_set, manifest,
                   requirements_files, packages, package_versions,
                   package_counts, faults_left, reads, written>>

-----------------------------------------------------------------------------
(* Runs of main *)

\* The read errors the environment raises in one run, at most.
MaxFaults == 1

Text(which) ==
    CASE which = "Flask==2.0" -> <<"F", "l", "a", "s", "k", "=", "=", "2", ".", "0">>
      [] which = "flask==2.0" -> <<"f", "l", "a", "s", "k", "=", "=", "2", ".", "0">>
      [] which = "requests" -> <<"r", "e", "q", "u", "e", "s", "t", "s">>
      [] which = "numpy>=1.20" -> <<"n", "u", "m", "p", "y", ">", "=", "1", ".", "2", "0">>
      [] which = "pkg==1.0" -> <<"p", "k", "g", "=", "=", "1", ".", "0">>
      [] which = "Pkg==2.0" -> <<"P", "k", "g", "=", "=", "2", ".", "0">>
      [] which = "old" -> <<"o", "l", "d">>

\* The trees main is run on: no manifest at all; manifests under denylisted
\* directories only; the two projects of the end-to-end scenario; a
\* declaration repeated in one file and given another version in a second.
SampleTrees ==
    { <<>>,
      (<<"venv", "lib">> :> <<Text("old")>>) @@ (<<"proj1", "env">> :> <<Text("old")>>),
      (<<"proj1">> :> <<Text("Flask==2.0"), Text("requests")>>)
        @@ (<<"proj2">> :> <<Text("flask==2.0"), Text("numpy>=1.20")>>)
        @@ (<<"venv">> :> <<Text("old")>>),
      (<<"proj1">> :> <<Text("pkg==1.0"), Text("pkg==1.0")>>)
        @@ (<<"proj2">> :> <<Text("Pkg==2.0")>>) }

\* The output directory before the run: new, or holding the four reports an
\* earlier run with the default names wrote about another tree.
OutputNames ==
    { "unique_packages.txt", "packages_by_frequency.txt",
      "unique_packages_with_versions.txt",
      "packages_by_frequency_with_versions.txt",
      "my_unique.txt", "my_frequency.txt", "ai_recommendations.txt" }

NewOutputDir == [name \in OutputNames |-> NoFile]

EarlierPackages == Text("old") :> <<>>
EarlierCounts == Text("old") :> 1

EarlierOutputDir ==
    [name \in OutputNames |->
        CASE name = "unique_packages.txt" -> unique_packages_report(EarlierPackages)
          [] name = "packages_by_frequency.txt" ->
                frequency_report(EarlierPackages, 1, EarlierCounts)
          [] name = "unique_packages_with_versions.txt" ->
                unique_packages_with_versions_report(EarlierCounts)
          [] name = "packages_by_frequency_with_versions.txt" ->
                frequency_with_versions_report(EarlierCounts, 1)
          [] OTHER -> NoFile]

\* The command lines: repo_base left out, naming nothing, naming a file or
\* naming a directory; each report name left at its default or given.
CommandLines ==
    [ repo_base : {"", "/nowhere", "/repos/README.md", "/repos"},
      unique_output : {"unique_packages.txt", "my_unique.txt"},
      frequency_output : {"packages_by_frequency.txt", "my_frequency.txt"},
      ai_analysis : BOOLEAN,
      skip_ai : BOOLEAN,
      ai_provider : {"anthropic", "openai"} ]

\* The state of main's variables before main runs.
Fresh ==
    /\ pc = "start"
    /\ exit_code = NoExit
    /\ requirements_files = <<>>
    /\ packages = <<>>
    /\ package_versions = <<>>
    /\ package_counts = <<>>
    /\ reads = [extract_packages |-> <<>>,
                extract_packages_with_versions |-> <<>>,
                generate_frequency_report |-> <<>>]
    /\ log = <<>>
    /\ written = [report \in Reports |-> NoFile]
    /\ prompt = [frequency |-> NoFile, unique |-> NoFile]
    /\ ai_outcome = "not run"

Init ==
    /\ line = <<>>
    /\ parsed = <<Unset, Unset>>
    /\ args \in CommandLines
    /\ api_key_set \in BOOLEAN
    /\ manifest \in SampleTrees
    /\ fs \in {NewOutputDir, EarlierOutputDir}
    /\ faults_left = MaxFaults
    /\ Fresh

Next ==
    \/ Validate
    \/ ScanRequirementsFiles
    \/ ExtractPackages
    \/ ExtractPackagesWithVersions
    \/ GenerateUniquePackagesReport
    \/ GenerateFrequencyReport
    \/ GenerateUniquePackagesWithVersionsReport
    \/ GenerateFrequencyWithVersionsReport
    \/ DecideAI
    \/ RunAIAnalysis

Spec == Init /\ [][Next]_vars

-----------------------------------------------------------------------------
(* Runs of main with --skip-ai over every small tree of two projects *)

\* The most lines the manifests of one of these trees have together.
MaxLines == 3

\* The sequences over a set, up to a length.
RECURSIVE SeqsUpTo(_, _)
SeqsUpTo(S, n) ==
    IF n = 0 THEN {<<>>}
    ELSE LET shorter == SeqsUpTo(S, n - 1)
         IN  shorter \cup {Append(t, x) : t \in shorter, x \in S}

\* The lines of these manifests: one declaration in two spellings, the same
\* package with another version, and another package without a version.
ScanLines ==
    { <<"A", "_", "b", "=", "=", "1">>,
      <<"a", "-", "b", "=", "=", "1">>,
      <<"a", "-", "b", ">", "=", "2">>,
      <<"c">> }

RECURSIVE TotalLines(_, _)
TotalLines(m, D) ==
    IF D = {} THEN 0
    ELSE LET d == CHOOSE x \in D : TRUE
         IN  Len(m[d]) + TotalLines(m, D \ {d})

ScannerTrees ==
    {m \in UNION {[D -> SeqsUpTo(ScanLines, MaxLines)] :
                     D \in SUBSET {<<"proj1">>, <<"proj2">>}} :
        TotalLines(m, DOMAIN m) <= MaxLines}

InitScanner ==
    /\ line = <<>>
    /\ parsed = <<Unset, Unset>>
    /\ args = [repo_base |-> "/repos", unique_output |-> "unique_packages.txt",
               frequency_output |-> "packages_by_frequency.txt",
               ai_analysis |-> FALSE, skip_ai |-> TRUE,
               ai_provider |-> "anthropic"]
    /\ api_key_set = FALSE
    /\ manifest \in ScannerTrees
    /\ fs = NewOutputDir
    /\ faults_left = 0            \* every read succeeds
    /\ Fresh

\* Runs over every placement of manifests in the directories of Dirs.
WalkTrees == {[d \in D |-> <<Text("requests")>>] : D \in SUBSET Dirs}

InitWalk ==
    /\ line = <<>>
    /\ parsed = <<Unset, Unset>>
    /\ args = [repo_base |-> "/repos", unique_output |-> "unique_packages.txt",
               frequency_output |-> "packages_by_frequency.txt",
               ai_analysis |-> FALSE, skip_ai |-> TRUE,
               ai_provider |-> "anthropic"]
    /\ api_key_set = FALSE
    /\ manifest \in WalkTrees
    /\ fs = NewOutputDir
    /\ faults_left = 0            \* every read succeeds
    /\ Fresh

NextScanner ==
    \/ Validate
    \/ ScanRequirementsFiles
    \/ ExtractPackages
    \/ ExtractPackagesWithVersions
    \/ GenerateUniquePackagesReport
    \/ GenerateFrequencyReport
    \/ GenerateUniquePackagesWithVersionsReport
    \/ GenerateFrequencyWithVersionsReport
    \/ DecideAI

SpecScanner == InitScanner /\ [][NextScanner]_vars

SpecWalk == InitWalk /\ [][NextScanner]_vars

-----------------------------------------------------------------------------
(* parse_requirement called on one line *)

\* The longest text drawn for a call of parse_requirement.
MaxLen == 4

\* The characters the drawn lines are made of: a letter in both cases, a
\* digit, the three separators of a name, two operator characters, the
\* whitespace, the comment sign and a character of none of these classes.
LineChars == {"a", "A", "1", "_", "-", ".", "=", "<", " ", "#", ","}

\* main is not running: its variables stay as they are before a run.
MainIdle ==
    /\ args = [repo_base |-> "", unique_output |-> "unique_packages.txt",
               frequency_output |-> "packages_by_frequency.txt",
               ai_analysis |-> FALSE, skip_ai |-> FALSE,
               ai_provider |-> "anthropic"]
    /\ api_key_set = FALSE
    /\ manifest = <<>>
    /\ fs = NewOutputDir
    /\ faults_left = 0
    /\ Fresh

\* Lines of the test cases, longer than MaxLen:
\*   Foo_Bar   and   requests>=2.28,<3.0  # pinned
\*   # comment   https://example.com/x.whl   http://a   git+https://x   -e .
ExampleLines ==
    { <<"F", "o", "o", "_", "B", "a", "r">>,
      <<"r", "e", "q", "u", "e", "s", "t", "s", ">", "=", "2", ".", "2", "8",
        ",", "<", "3", ".", "0", " ", " ", "#", " ", "p", "i", "n", "n", "e", "d">>,
      <<"#", " ", "c", "o", "m", "m", "e", "n", "t">>,
      <<"h", "t", "t", "p", "s", ":", "/", "/", "e", "x", "a", "m", "p", "l", "e",
        ".", "c", "o", "m", "/", "x", ".", "w", "h", "l">>,
      <<"h", "t", "t", "p", ":", "/", "/", "a">>,
      <<"g", "i", "t", "+", "h", "t", "t", "p", "s", ":", "/", "/", "x">>,
      <<"-", "e", " ", ".">> }

InitParse ==
    /\ line \in SeqsUpTo(LineChars, MaxLen) \cup ExampleLines
    /\ parsed = <<Unset, Unset>>
    /\ MainIdle

CallParseRequirement ==
    /\ parsed = <<Unset, Unset>>
    /\ parsed' = parse_requirement(line)
    /\ UNCHANGED line
    /\ UNCHANGED mainVars

NextParse == CallParseRequirement

SpecParse == InitParse /\ [][NextParse]_vars

-----------------------------------------------------------------------------
(* Properties *)

\* What a pass read: for each file of the list, the lines its read delivered.
DeliveredIn(pass) == Delivered(manifest, requirements_files, reads[pass])

\* The keys the lines of one file declare.
KeysDeclared(lines, keyed_by) ==
    {KeyOf(keyed_by, parse_requirement(lines[j])) :
        j \in {k \in 1..Len(lines) : parse_requirement(lines[k])[1] # None}}

\* counts holds, for each key some file declares, the number of files that
\* declare it, and nothing else.
CountsFiles(counts, delivered, keyed_by) ==
    /\ DOMAIN counts =
          UNION {KeysDeclared(delivered[i], keyed_by) : i \in 1..Len(delivered)}
    /\ \A key \in DOMAIN counts :
          counts[key] =
             Cardinality({i \in 1..Len(delivered) :
                             key \in KeysDeclared(delivered[i], keyed_by)})

\* C1: the count extract_packages_with_versions gives a full spec, and the
\* count generate_frequency_report gives a name, is the number of files of
\* the list in which at least one line read parses to that full spec (that
\* name): a file counts once however often it repeats the declaration, and
\* no other key is counted.
C1_CountsAreFilesDeclaring ==
    /\ Did("extract_packages_with_versions") =>
          CountsFiles(package_versions,
                      DeliveredIn("extract_packages_with_versions"), "full_spec")
    /\ Did("generate_frequency_report") =>
          CountsFiles(package_counts,
                      DeliveredIn("generate_frequency_report"), "package_name")

\* A file that declares a-b==1 on two lines in two spellings, a second file
\* that declares it too: the full spec and the name are both counted 2.
C1_Witness ==
    /\ Did("generate_frequency_report")
    /\ \E i \in 1..Len(requirements_files) :
          manifest[requirements_files[i]] =
             << <<"A", "_", "b", "=", "=", "1">>, <<"a", "-", "b", "=", "=", "1">> >>
    /\ <<"a", "-", "b", "=", "=", "1">> \in DOMAIN package_versions
    /\ package_versions[<<"a", "-", "b", "=", "=", "1">>] = 2
    /\ package_counts[<<"a", "-", "b">>] = 2

\* The lines a pass would have been given with every file whose read failed
\* left out.
WithoutFailed(pass) ==
    [i \in 1..Len(requirements_files) |->
        IF reads[pass][i] = NoFault THEN manifest[requirements_files[i]] ELSE <<>>]

\* C2: a file whose read fails, at the open or at any of its lines, adds
\* nothing to packages, to package_versions or to the name counts: each is
\* what the files read without error give.
C2_FailedFileAddsNothing ==
    /\ Did("extract_packages") =>
          packages = extract_packages(<<>>, WithoutFailed("extract_packages"))
    /\ Did("extract_packages_with_versions") =>
          package_versions =
             extract_packages_with_versions(
                WithoutFailed("extract_packages_with_versions"))
    /\ Did("generate_frequency_report") =>
          package_counts = count_packages(WithoutFailed("generate_frequency_report"))

\* main has returned from a walk that found no manifest.
EmptyScanReturned ==
    pc = "done" /\ Did("walk") /\ requirements_files = <<>>

\* C3, as claimed: a run on a directory without manifests ends with exit
\* code 0, empty aggregates and the reports written with a total of 0.
C3_EmptyScanWritesReports ==
    EmptyScanReturned =>
        /\ exit_code = 0
        /\ packages = <<>> /\ package_versions = <<>>
        /\ fs[OutputName(args, "unique")] = unique_packages_report(<<>>)
        /\ fs[OutputName(args, "frequency")] = frequency_report(<<>>, 0, <<>>)

\* C3, amended: once the walk has found no manifest main returns 0 at once:
\* the output directory is created, no manifest is read, no aggregate is
\* built and no report is written.
C3_EmptyScanReturnsZero ==
    (Did("walk") /\ requirements_files = <<>>) =>
        /\ pc = "done"
        /\ exit_code = 0
        /\ log = <<"mkdir", "walk">>
        /\ packages = <<>> /\ package_versions = <<>> /\ package_counts = <<>>
        /\ \A report \in Reports : written[report] = NoFile
        /\ fs \in {NewOutputDir, EarlierOutputDir}

\* A tree whose only manifests lie under denylisted directories.
C3_Witness ==
    EmptyScanReturned /\ exit_code = 0 /\ <<"venv", "lib">> \in DOMAIN manifest

InvalidBase == args.repo_base = "" \/ PathKind(args.repo_base) # "directory"

\* C4: with repo_base left out, or naming no directory, main returns 1 and
\* nothing has happened before: no output directory, no walk, no read of a
\* manifest, no report.
C4_InvalidBaseReturnsOneFirst ==
    InvalidBase =>
        /\ log = <<>>
        /\ requirements_files = <<>>
        /\ \A report \in Reports : written[report] = NoFile
        /\ fs \in {NewOutputDir, EarlierOutputDir}
        /\ pc \in {"start", "done"}
        /\ pc = "done" => exit_code = 1

\* repo_base names a file.
C4_Witness ==
    pc = "done" /\ exit_code = 1 /\ PathKind(args.repo_base) = "file"

\* C5: the summarization step starts only after the four reports are
\* written, and when it fails main still returns 0 with each report file
\* holding what its generator wrote.
C5_SummarizationFailureIsCaught ==
    /\ (pc = "analyze" \/ Did("analyze")) =>
          /\ Did("generate_unique_packages_report")
          /\ Did("generate_frequency_report")
          /\ Did("generate_unique_packages_with_versions_report")
          /\ Did("generate_frequency_with_versions_report")
          /\ \A report \in Reports : written[report] # NoFile
    /\ (Did("analyze") /\ ai_outcome # "none") =>
          /\ pc = "done"
          /\ exit_code = 0
          /\ \A report \in Reports : fs[OutputName(args, report)] = written[report]

\* The step failed for the missing key and main returned 0.
C5_Witness ==
    /\ Did("analyze") /\ ~api_key_set /\ ai_outcome = "ValueError"
    /\ pc = "done" /\ exit_code = 0

\* The lines of a report before its entries, and the line that states how
\* many entries follow.
HeaderLines(report) ==
    IF report \in {"unique", "unique_with_versions"} THEN 3 ELSE 6

TotalLine(report) ==
    IF report \in {"unique", "unique_with_versions"} THEN 2 ELSE 3

\* The text is a whole report: as many entries as its header states.
WholeReport(report, text) ==
    /\ Len(text) >= HeaderLines(report)
    /\ Len(text) = HeaderLines(report) + text[TotalLine(report)][2]

\* C6: at every point of a run each report file is as it was before the
\* run or holds a whole report.
C6_NoPartialReport ==
    \A report \in Reports :
        LET name == OutputName(args, report)
        IN  \/ fs[name] \in {NewOutputDir[name], EarlierOutputDir[name]}
            \/ WholeReport(report, fs[name])

\* The four reports of a run that walks the files in the given order and
\* reads them all.
ReportsFor(files) ==
    LET everything == [i \in 1..Len(files) |-> NoFault]
        delivered == Delivered(manifest, files, everything)
        pk == extract_packages(<<>>, delivered)
        pv == extract_packages_with_versions(delivered)
    IN  [report \in Reports |->
            CASE report = "unique" -> unique_packages_report(pk)
              [] report = "frequency" ->
                    frequency_report(pk, Len(files), count_packages(delivered))
              [] report = "unique_with_versions" ->
                    unique_packages_with_versions_report(pv)
              [] report = "frequency_with_versions" ->
                    frequency_with_versions_report(pv, Len(files))]

\* C7: the four reports a run has written are the ones a walk of the same
\* tree in any other order gives.
C7_ReportsIgnoreTraversalOrder ==
    (pc = "done" /\ Did("generate_frequency_with_versions_report")
        /\ \A pass \in DOMAIN reads : Failed(reads[pass]) = {}) =>
        \A other \in scan_requirements_files(manifest) :
            ReportsFor(other) = written

\* C8: the two texts put in the prompt are the unique-names report and the
\* names-by-frequency report this run wrote.
C8_PromptHoldsThisRunsReports ==
    (Did("analyze") /\ prompt.frequency # NoFile) =>
        /\ prompt.unique = written["unique"]
        /\ prompt.frequency = written["frequency"]

\* parse_requirement has returned a declaration.
Declared == parsed # <<Unset, Unset>> /\ parsed[1] # None

\* The text parse_requirement matches the name in, and the name as written.
Stripped(raw) == Strip(BeforeHash(raw))
WrittenName(raw) == SubSeq(Stripped(raw), 1, NameMatchEnd(Stripped(raw)))

\* The characters that spell c: c, its other case, and '-' for '_'.
Spellings(c) ==
    {c} \cup (IF c \in {"_", "-"} THEN {"_", "-"} ELSE {})
        \cup (IF c \in UpperCase THEN {CodePoints[Ord(c) + (Ord("a") - Ord("A"))]}
              ELSE IF c \in LowerCase THEN {CodePoints[Ord(c) - (Ord("a") - Ord("A"))]}
              ELSE {})

RECURSIVE Respellings(_)
Respellings(name) ==
    IF name = <<>> THEN {<<>>}
    ELSE {<<c>> \o rest : c \in Spellings(Head(name)), rest \in Respellings(Tail(name))}

IsRespelling(a, b) ==
    Len(a) = Len(b) /\ \A i \in 1..Len(a) : b[i] \in Spellings(a[i])

\* What may follow the name on the other line.
Tails ==
    { <<>>, <<"=", "=", "1">>, <<" ", ">", "=", "2">>, <<"[", "x", "]">>,
      <<" ", "#", " ", "c">> }

\* C9: a line whose package name differs from this line's only in letter
\* case or in '_' for '-' parses to the same normalized name, whatever
\* follows the name; and the normalized name parses to itself.
C9_OneCanonicalName ==
    Declared =>
        /\ \A respelled \in Respellings(WrittenName(line)) :
              \A tail \in Tails \cup {Drop(Stripped(line), Len(parsed[1]) + 1)} :
                 LET other == respelled \o tail
                     name == parse_requirement(other)[1]
                 IN  (/\ name # None
                      /\ IsRespelling(WrittenName(line), WrittenName(other)))
                     => name = parsed[1]
        /\ parse_requirement(parsed[1])[1] = parsed[1]

\* Foo_Bar parses to foo-bar.
C9_Witness ==
    /\ Declared
    /\ line = <<"F", "o", "o", "_", "B", "a", "r">>
    /\ parsed[1] = <<"f", "o", "o", "-", "b", "a", "r">>

\* C10: the version spec is taken from the line without its comment: in
\* the text after the name it is the run that starts at the first of
\* = < > ! and ends before the next whitespace or at the end of the text,
\* and it is empty when the text has none of these characters.
C10_VersionSpecIsFirstRun ==
    Declared =>
        LET rest == Drop(Stripped(line), Len(parsed[1]) + 1)
            ops == {i \in 1..Len(rest) : IsOperatorChar(rest[i])}
            spec == parsed[2]
        IN  IF ops = {} THEN spec = <<>>
            ELSE \E i \in ops :
                    /\ \A k \in ops : i <= k
                    /\ Len(spec) >= 1
                    /\ i + Len(spec) - 1 <= Len(rest)
                    /\ spec = SubSeq(rest, i, i + Len(spec) - 1)
                    /\ \A k \in 1..Len(spec) : ~IsSpace(spec[k])
                    /\ i + Len(spec) - 1 = Len(rest) \/ IsSpace(rest[i + Len(spec)])

\* requests>=2.28,<3.0  # pinned   gives requests and >=2.28,<3.0
C10_Witness ==
    /\ Declared
    /\ Len(line) = 29 /\ line[22] = "#"
    /\ parsed = << <<"r", "e", "q", "u", "e", "s", "t", "s">>,
                   <<">", "=", "2", ".", "2", "8", ",", "<", "3", ".", "0">> >>


\* The line holds no declaration: without its comment and the blanks around
\* it, it is empty, starts with a skipped prefix or starts with no letter
\* and no digit.
Rejected(raw) ==
    LET s == Stripped(raw)
    IN  \/ s = <<>>
        \/ \E n \in {4, 7, 8, 3} :
              /\ Len(s) >= n
              /\ SubSeq(s, 1, n) \in
                    { <<"h", "t", "t", "p", ":", "/", "/">>,
                      <<"h", "t", "t", "p", "s", ":", "/", "/">>,
                      <<"g", "i", "t", "+">>, <<"-", "e", " ">> }
        \/ s[1] \notin UpperCase \cup LowerCase \cup Digits


\* C11: parse_requirement returns (None, None) for every line that, without
\* its comment and stripped, is empty, starts with http://, https://, git+
\* or '-e ', or does not start with a letter or a digit; and such a line
\* adds no key and no count to an aggregate.
C11_RejectedLinesDeclareNothing ==
    (parsed # <<Unset, Unset>> /\ Rejected(line)) =>
        /\ parsed = <<None, None>>
        /\ AddDeclaration(EarlierPackages, line) = EarlierPackages
        /\ CountFile(EarlierCounts, {}, <<line>>, "full_spec") = EarlierCounts
        /\ CountFile(EarlierCounts, {}, <<line>>, "package_name") = EarlierCounts

\* git+https://x has been parsed, to nothing.
C11_Witness ==
    /\ parsed = <<None, None>>
    /\ Len(line) = 13 /\ SubSeq(line, 1, 4) = <<"g", "i", "t", "+">>


\* The entries of a frequency report: its lines after the header.
Entries(text) == SubSeq(text, HeaderLines("frequency") + 1, Len(text))

\* The entries are in descending count, equal counts in ascending key.
ByCountThenKey(entries) ==
    \A i \in 1..(Len(entries) - 1) :
        LET k1 == entries[i][2]
            c1 == entries[i][3]
            k2 == entries[i + 1][2]
            c2 == entries[i + 1][3]
        IN  c1 > c2 \/ (c1 = c2 /\ TextLess(k1, k2))

\* Every counted key has one entry, with its count.
EachKeyOnce(entries, counts) ==
    /\ Len(entries) = Cardinality(DOMAIN counts)
    /\ \A key \in DOMAIN counts :
          \E i \in 1..Len(entries) :
             entries[i][2] = key /\ entries[i][3] = counts[key]

\* C12: the two frequency reports list their entries by descending count,
\* ties by ascending key (name, resp. full spec), and every counted key
\* appears exactly once.
C12_FrequencyReportsSortedAndComplete ==
    /\ written["frequency"] # NoFile =>
          /\ ByCountThenKey(Entries(written["frequency"]))
          /\ EachKeyOnce(Entries(written["frequency"]), package_counts)
    /\ written["frequency_with_versions"] # NoFile =>
          /\ ByCountThenKey(Entries(written["frequency_with_versions"]))
          /\ EachKeyOnce(Entries(written["frequency_with_versions"]),
                         package_versions)


\* No directory on the way down from the base has a skipped name.
OutsideSkipped(d) ==
    \A i \in 1..Len(d) :
        d[i] \notin {".git", "__pycache__", "node_modules", ".venv", "venv", "env"}

\* C13: scan_requirements_files returns exactly the manifests reached from
\* the base through no directory named .git, __pycache__, node_modules,
\* .venv, venv or env: none from under such a directory at any depth, and
\* each of the others exactly once.
C13_ScanSkipsDenylistedSubtrees ==
    Did("walk") =>
        /\ Range(requirements_files) = {d \in DOMAIN manifest : OutsideSkipped(d)}
        /\ \A i, j \in 1..Len(requirements_files) :
              requirements_files[i] = requirements_files[j] => i = j

\* Manifests under venv, under proj1/env and under proj2/sub/.git are left
\* out, those of the base, of proj1 and of proj2/sub are returned.
C13_Witness ==
    /\ Did("walk")
    /\ {<<"venv", "lib">>, <<"proj1", "env">>, <<"proj2", "sub", ".git">>,
        <<"venv">>} \subseteq DOMAIN manifest
    /\ Range(requirements_files) = {<<>>, <<"proj1">>, <<"proj2", "sub">>}


\* C14: in every run of main, also when a file's read fails in one pass and
\* succeeds in another, every name generate_frequency_report counts is a
\* key of the packages built by extract_packages: the lookup of line 219
\* never fails, and the frequency report states the same total of unique
\* packages as the unique-names report.
C14_CountedNamesAreAggregated ==
    Did("generate_frequency_report") =>
        /\ DOMAIN package_counts \subseteq DOMAIN packages
        /\ pc # "crashed"
        /\ written["frequency"][TotalLine("frequency")][2]
              = written["unique"][TotalLine("unique")][2]

=============================================================================
